---- MODULE Spec2Model ----
(***************************************************************************)
(* createCommentPost (includes/Mari/src/comment.js): one call of the       *)
(* comment-creation pipeline, at the granularity of the JavaScript event   *)
(* loop.  One action is one task: the caller's synchronous call, the       *)
(* microtasks queued by it, the arrival of one upload response (with the   *)
(* promise reactions it triggers) and the arrival of the mutation          *)
(* response.                                                               *)
(***************************************************************************)
EXTENDS Integers, Sequences, FiniteSets, TLC

VARIABLES
    args,       \* the arguments of the call (NoArgs before it)
    ret,        \* what the synchronous call gave its caller: "none" (not called),
                \* "promise", "undefined", "cbvalue" (the callback's value), "throw"
    cbAtReturn, \* number of completion-callback invocations when the call returned
    promise,    \* returnPromise: [st, val]
    cbCalls,    \* invocations of `callback`, in order: <<[err, data]>>
    form,       \* the form object built at lines 201-223
    upl,        \* per attachment: the upload request, its state and response
    arrived,    \* attachment indices in the order their responses arrived
    hu,         \* the promise returned by handleUpload: [st, val]
    chain,      \* position in the promise chain of lines 226-240
    mut,        \* the mutation request: [st, sent, body, res]
    calls,      \* two calls in flight together: per call its arguments, its
                \* state (the fields above) and the tokens of its form
    guid,       \* number of utils.getGUID() calls made so far
    botProcess, \* control server: the tracked child process (0 for null)
    botStatus,  \* control server: 'stopped' or 'running'
    procs       \* the child processes spawned so far, each with its state

oneVars == <<args, ret, cbAtReturn, promise, cbCalls, form, upl, arrived, hu, chain, mut>>

twoVars == <<calls, guid>>

serverVars == <<botProcess, botStatus, procs>>

vars == <<oneVars, twoVars, serverVars>>

\* Largest attachment list of a call.
MaxAtt == 2

\* Largest mention list of a call, where the mentions are what is examined.
MaxMentions == 2

\* Number of bot processes the control server spawns in a run.
MaxSpawns == 4

-----------------------------------------------------------------------------
(* JavaScript values *)

Null == [kind |-> "null"]
Undefined == [kind |-> "undefined"]
JSString(s) == [kind |-> "string", v |-> s]
JSNumber(s) == [kind |-> "number", v |-> s]

NoArgs == [kind |-> "none"]
NoForm == [kind |-> "none"]

\* typeof x, for the kinds of message and postID a caller can pass.
TypeOf(t) ==
    IF t = "null" THEN "object" ELSE t

\* utils.isReadableStream(item)
IsReadableStream(item) ==
    item = "stream"

\* String(x) of a number or a string: its digits / itself.
String(x) ==
    x.v

\* Buffer.from('feedback:' + postID).toString('base64'): injective in postID;
\* kept as the tagged argument.
FeedbackId(postID) ==
    [kind |-> "base64", of |-> "feedback:" \o postID.v]

ValidationMsgError == [kind |-> "validation", error |-> "Message must be a string or an object."]
ValidationPostError == [kind |-> "validation", error |-> "postID must be a string."]
NotReadableError == [kind |-> "Error", message |-> "Attachments must be a readable stream."]
CallbackThrown == [kind |-> "Error", message |-> "thrown by the callback"]
TypeError(where) == [kind |-> "TypeError", message |-> where]
NetError(req) == [kind |-> "NetError", message |-> req]

-----------------------------------------------------------------------------
(* The inputs of a call *)

Items == {"stream", "notStream"}

AttLists == UNION {[1..n -> Items] : n \in 0..MaxAtt}

\* A mention: tag (a string or undefined), id ("" when missing), fromIndex.
Mention(tag, id, from) == [tag |-> tag, id |-> id, fromIndex |-> from]

MentionLists ==
    { <<>>,
      << Mention(JSString(<<"b">>), "42", Undefined) >>,
      << Mention(JSString(<<"c">>), "42", Undefined) >>,
      << Mention(Undefined, "42", Undefined) >> }

\* item.fromIndex || 0
FromIndex(item) ==
    IF item.fromIndex.kind = "number" THEN item.fromIndex.n ELSE 0

Bodies == { JSString(<<"a", "b">>), Undefined }

Urls == { Undefined, JSString("http://u"), JSNumber("5") }

Stickers == { Undefined, JSNumber("7") }

\* Mentions against the body "aba": tags found twice, once, never, the empty
\* tag, with and without a fromIndex (one of them beyond the end of the body),
\* a second id, and the two malformed mentions (no string tag, no id).
MentionItems ==
    { Mention(JSString(<<"a">>), "42", f) :
        f \in { Undefined, [kind |-> "number", n |-> 1], [kind |-> "number", n |-> 4] } }
    \cup { Mention(JSString(<<>>), "42", f) :
        f \in { Undefined, [kind |-> "number", n |-> 4] } }
    \cup { Mention(JSString(<<"b", "a">>), "42", Undefined),
           Mention(JSString(<<"c">>), "42", Undefined),
           Mention(JSString(<<"a">>), "43", Undefined),
           Mention(Undefined, "42", Undefined),
           Mention(JSString(<<"a">>), "", Undefined) }

MentionMsgs ==
    [t : {"object"},
     body : { JSString(<<"a", "b", "a">>), Undefined },
     attachments : { <<>> },
     mentions : UNION {[1..n -> MentionItems] : n \in 0..MaxMentions},
     url : { Undefined, JSString("http://u") },
     sticker : Stickers]

MentionArgs ==
    { [kind |-> "args", msg |-> m, postID |-> JSString("p1"),
       caller |-> [reply |-> "none", cb |-> "none", cbThrows |-> FALSE]] :
        m \in MentionMsgs }

ObjectMsgs ==
    [t : {"object"}, body : Bodies, attachments : AttLists,
     mentions : MentionLists, url : Urls, sticker : Stickers]

\* A message that is not an object carries none of the object's fields.
PlainMsg(t, body) ==
    [t |-> t, body |-> body, attachments |-> <<>>, mentions |-> <<>>,
     url |-> Undefined, sticker |-> Undefined]

Msgs ==
    ObjectMsgs
    \cup {PlainMsg("string", JSString(<<"a", "b">>)), PlainMsg("string", JSString(<<>>))}
    \cup {PlainMsg(t, Undefined) : t \in {"number", "boolean", "undefined", "null"}}

PostIDs == { JSString("p1"), JSNumber("1") }

\* The third and fourth arguments: reply is "none", "id" or "fn" (a function
\* passed in replyCommentID's place), cb is "none" or "fn"; cbThrows says that
\* the caller's function throws when it is invoked.
Callers ==
    { [reply |-> "none", cb |-> "none", cbThrows |-> FALSE],
      [reply |-> "id",   cb |-> "none", cbThrows |-> FALSE],
      [reply |-> "fn",   cb |-> "none", cbThrows |-> FALSE],
      [reply |-> "fn",   cb |-> "none", cbThrows |-> TRUE],
      [reply |-> "none", cb |-> "fn",   cbThrows |-> FALSE],
      [reply |-> "none", cb |-> "fn",   cbThrows |-> TRUE],
      [reply |-> "id",   cb |-> "fn",   cbThrows |-> FALSE] }

Args ==
    { [kind |-> "args", msg |-> m, postID |-> p, caller |-> c] :
        m \in Msgs, p \in PostIDs, c \in Callers }

-----------------------------------------------------------------------------
(* Responses of the HTTP collaborator *)

\* What an upload request can come back with: a usable payload, a response
\* with an error, one without payload, one without fbid, or a transport /
\* login error raised by postFormData or parseAndCheckLogin.
UploadOutcomes == {"ok", "error", "nopayload", "nofbid", "neterr"}

\* The media id the server returns for attachment i.
Fbid(i) == "fbid" \o ToString(i)

UploadRes(i, o) ==
    [kind |-> "uploadRes", att |-> i, error |-> (o = "error"),
     payload |-> IF o = "nopayload" THEN "absent"
                 ELSE IF o = "nofbid" THEN "nofbid" ELSE Fbid(i)]

\* The nested fields createContent reads from a mutation response.
Paths == {"data", "comment_create", "feedback_comment_edge", "node", "id",
          "node_feedback", "url", "feedback", "total_comment_count"}

Parent(p) ==
    CASE p = "data" -> "data"
      [] p = "comment_create" -> "data"
      [] p = "feedback_comment_edge" -> "comment_create"
      [] p = "node" -> "feedback_comment_edge"
      [] p = "id" -> "node"
      [] p = "node_feedback" -> "node"
      [] p = "url" -> "node_feedback"
      [] p = "feedback" -> "comment_create"
      [] p = "total_comment_count" -> "feedback"

\* The shapes a response can have: a field is present only inside its parent.
Shapes == {s \in SUBSET Paths : \A p \in s : Parent(p) \in s}

NoErrors == [kind |-> "undefined"]
ErrorCollection(n) == [kind |-> "errors", items |-> n]

MutationRes(errors, shape) ==
    [kind |-> "mutationRes", errors |-> errors, has |-> shape]

MutationResponses ==
    {MutationRes(NoErrors, s) : s \in Shapes}
    \cup {MutationRes(ErrorCollection(n), Paths) : n \in {0, 1}}
    \cup {MutationRes(ErrorCollection(1), {})}
    \cup {NetError("mutation")}

-----------------------------------------------------------------------------
(* The completion path *)

\* Lines 170-180: a function in replyCommentID's place is the callback; without
\* one the callback is the internal function that settles returnPromise.
UserCallback(a) ==
    a.caller.reply = "fn" \/ a.caller.cb = "fn"

CallbackThrows(a) ==
    UserCallback(a) /\ a.caller.cbThrows

\* Lines 170-173 and 214: replyCommentID || null.
ReplyCommentID(a) ==
    IF a.caller.reply = "id" THEN JSString("c1") ELSE Null

\* resolveFunc / rejectFunc: a promise settles once.
Settle(p, st, val) ==
    IF p.st = "pending" THEN [st |-> st, val |-> val] ELSE p

\* callback(err, data): the caller's function, or lines 176-179.
InvokeCallback(s, a, err, data) ==
    LET s1 == [s EXCEPT !.cbCalls = Append(@, [err |-> err, data |-> data])]
    IN  IF UserCallback(a) THEN s1
        ELSE IF err # Null
             THEN [s1 EXCEPT !.promise = Settle(@, "rejected", err)]
             ELSE [s1 EXCEPT !.promise = Settle(@, "resolved", data)]

\* Lines 237-240: .catch(function(err) { callback(err) }).
CatchHandler(s, a, err) ==
    [InvokeCallback(s, a, err, Undefined) EXCEPT !.chain = "done"]

\* Lines 233-236: .then(function(info) { callback(null, info) }); what the
\* callback throws there rejects the promise that .catch is attached to.
ThenInfo(s, a, info) ==
    LET s1 == InvokeCallback(s, a, Null, info)
    IN  IF CallbackThrows(a)
        THEN CatchHandler(s1, a, CallbackThrown)
        ELSE [s1 EXCEPT !.chain = "done"]

-----------------------------------------------------------------------------
(* The mergers *)

Media(id) == [kind |-> "media", val |-> id]
Link(url) == [kind |-> "link", val |-> url]

\* Lines 60-70.
handleURL(msg, frm) ==
    IF msg.url.kind = "string"
    THEN [frm EXCEPT !.attachments = Append(@, Link(msg.url.v))]
    ELSE frm

Min(S) == CHOOSE x \in S : \A y \in S : x <= y

\* String.prototype.indexOf(t, from) on s; positions count from 0.
IndexOf(s, t, from) ==
    LET start == IF from < 0 THEN 0 ELSE IF from > Len(s) THEN Len(s) ELSE from
        found == {k \in start..(Len(s) - Len(t)) : SubSeq(s, k + 1, k + Len(t)) = t}
    IN  IF found = {} THEN -1 ELSE Min(found)

\* Lines 80-102, from mention i on: the form, and whether msg.body.indexOf
\* threw because msg.body is not a string.
RECURSIVE MentionsLoop(_, _, _)
MentionsLoop(msg, frm, i) ==
    IF i > Len(msg.mentions) THEN [form |-> frm, threw |-> FALSE]
    ELSE LET item == msg.mentions[i]
         IN  IF item.tag.kind # "string" \/ item.id = ""
             THEN MentionsLoop(msg, frm, i + 1)
             ELSE IF msg.body.kind # "string"
             THEN [form |-> frm, threw |-> TRUE]
             ELSE LET offset == IndexOf(msg.body.v, item.tag.v, FromIndex(item))
                  IN  IF offset < 0
                      THEN MentionsLoop(msg, frm, i + 1)
                      ELSE MentionsLoop(msg,
                               [frm EXCEPT !.ranges = Append(@,
                                   [entity |-> item.id, length |-> Len(item.tag.v),
                                    offset |-> offset])],
                               i + 1)

\* Lines 77-103.
handleMentions(msg, frm) ==
    MentionsLoop(msg, frm, 1)

\* Lines 110-118.
handleSticker(msg, frm) ==
    IF msg.sticker # Undefined
    THEN [frm EXCEPT !.attachments = Append(@, Media(String(msg.sticker)))]
    ELSE frm

\* Lines 201-223: the fields of the form that depend on the call.
BuildForm(a) ==
    [kind |-> "form",
     attachments |-> <<>>,
     feedback_id |-> FeedbackId(a.postID),
     ranges |-> <<>>,
     text |-> IF a.msg.body.kind = "string" THEN a.msg.body.v ELSE <<>>,
     reply_comment_parent_fbid |-> ReplyCommentID(a)]

-----------------------------------------------------------------------------
(* Upload and submission *)

NoRequest == [st |-> "none", sent |-> 0, out |-> "none"]

\* Lines 24-47, up to the await: the map issues the requests in list order and
\* stops at the first item that is not a readable stream.
HandleUploadStart(s, a) ==
    LET atts == a.msg.attachments
        bad == {i \in 1..Len(atts) : ~IsReadableStream(atts[i])}
        stop == IF bad = {} THEN Len(atts) + 1 ELSE Min(bad)
    IN  IF Len(atts) = 0
        THEN [s EXCEPT !.hu = [st |-> "fulfilled", val |-> Undefined]]
        ELSE [s EXCEPT
                !.upl = [i \in 1..Len(atts) |->
                            IF i < stop
                            THEN [st |-> "inflight", sent |-> 1, out |-> "none"]
                            ELSE NoRequest],
                !.hu = IF bad = {}
                       THEN [st |-> "pending", val |-> Undefined]
                       ELSE [st |-> "rejected", val |-> NotReadableError]]

\* Line 42.
UploadFails(res) ==
    res.error \/ res.payload = "absent" \/ res.payload = "nofbid"

\* What the promise of upload i settles with (lines 33-46).
UploadValue(i, o) ==
    IF o = "neterr" THEN NetError("upload" \o ToString(i))
    ELSE IF UploadFails(UploadRes(i, o)) THEN UploadRes(i, o)
    ELSE Media(UploadRes(i, o).payload)

UploadRejects(i, o) ==
    o = "neterr" \/ UploadFails(UploadRes(i, o))

\* Lines 49-52: the results of Promise.all are in the order of the list.
PushResults(frm, uploads) ==
    [frm EXCEPT !.attachments =
        @ \o [i \in 1..Len(uploads) |-> UploadValue(i, uploads[i].out)]]

\* Lines 128-136, up to the await: the form is serialised and posted.
CreateContentStart(s) ==
    [s EXCEPT !.mut = [st |-> "inflight", sent |-> @.sent + 1,
                       body |-> s.form, res |-> Undefined],
              !.chain = "submitting"]

\* ThenMerge with handleSticker called first.
ThenMerge_StickerFirst(s, a) ==
    LET f1 == handleSticker(a.msg, s.form)
        f2 == handleURL(a.msg, f1)
        m == handleMentions(a.msg, f2)
    IN  IF m.threw
        THEN CatchHandler([s EXCEPT !.form = m.form], a, TypeError("indexOf"))
        ELSE CreateContentStart([s EXCEPT !.form = m.form])

\* Lines 227-232: the reaction to handleUpload's fulfilment.
ThenMerge(s, a) ==
    LET f1 == handleURL(a.msg, s.form)
        m == handleMentions(a.msg, f1)
        f3 == handleSticker(a.msg, m.form)
    IN  IF m.threw
        THEN CatchHandler([s EXCEPT !.form = m.form], a, TypeError("indexOf"))
        ELSE CreateContentStart([s EXCEPT !.form = f3])

\* The fields whose absence makes lines 142-146 read a property of undefined.
Dereferenced ==
    {"data", "comment_create", "feedback_comment_edge", "node", "node_feedback",
     "feedback"}

Field(res, p, v) ==
    IF p \in res.has THEN JSString(v) ELSE Undefined

\* Lines 142-147.
CommentResult(res) ==
    [kind |-> "commentResult",
     id |-> Field(res, "id", "cid"),
     url |-> Field(res, "url", "http://c"),
     count |-> Field(res, "total_comment_count", "3")]

\* CreateContentEnd without the check of lines 138-140.
CreateContentEnd_NoErrorsCheck(s, a, res) ==
    IF res.kind = "NetError" THEN CatchHandler(s, a, res)
    ELSE IF ~(Dereferenced \subseteq res.has)
    THEN CatchHandler(s, a, TypeError("read of undefined"))
    ELSE ThenInfo(s, a, CommentResult(res))

\* Lines 136-147 and the reactions of lines 233-240.
CreateContentEnd(s, a, res) ==
    IF res.kind = "NetError" THEN CatchHandler(s, a, res)
    ELSE IF res.errors # NoErrors THEN CatchHandler(s, a, res)
    ELSE IF ~(Dereferenced \subseteq res.has)
    THEN CatchHandler(s, a, TypeError("read of undefined"))
    ELSE ThenInfo(s, a, CommentResult(res))

-----------------------------------------------------------------------------
(* The state machine *)

NoPromise == [st |-> "none", val |-> Undefined]
NoMutation == [st |-> "none", sent |-> 0, body |-> NoForm, res |-> Undefined]

\* The part of the state the handlers of one call read and write.
State ==
    [promise |-> promise, cbCalls |-> cbCalls, form |-> form, upl |-> upl,
     arrived |-> arrived, hu |-> hu, chain |-> chain, mut |-> mut]

Install(s) ==
    /\ promise' = s.promise
    /\ cbCalls' = s.cbCalls
    /\ form' = s.form
    /\ upl' = s.upl
    /\ arrived' = s.arrived
    /\ hu' = s.hu
    /\ chain' = s.chain
    /\ mut' = s.mut

\* The state of a call that has not been made.
InitialState ==
    [promise |-> NoPromise, cbCalls |-> <<>>, form |-> NoForm, upl |-> <<>>,
     arrived |-> <<>>, hu |-> NoPromise, chain |-> "none", mut |-> NoMutation]

NoTokens == [client_mutation_id |-> "", idempotence_token |-> "", session_id |-> ""]

NoCall == [args |-> NoArgs, s |-> InitialState, ret |-> "none", tok |-> NoTokens]

Init ==
    /\ args = NoArgs
    /\ ret = "none"
    /\ cbAtReturn = 0
    /\ promise = NoPromise
    /\ cbCalls = <<>>
    /\ form = NoForm
    /\ upl = <<>>
    /\ arrived = <<>>
    /\ hu = NoPromise
    /\ chain = "none"
    /\ mut = NoMutation
    /\ calls = [c \in 1..2 |-> NoCall]
    /\ guid = 0
    /\ botProcess = 0
    /\ botStatus = "stopped"
    /\ procs = <<>>

\* Lines 183-193: `return callback({ error: ... })`: the call returns what the
\* callback returns (undefined from the internal one) or throws what it throws.
ValidationFailure(s, a, err) ==
    [state |-> InvokeCallback(s, a, err, Undefined),
     ret |-> IF CallbackThrows(a) THEN "throw"
             ELSE IF UserCallback(a) THEN "cbvalue" ELSE "undefined"]

\* CreateCommentPost without the postID check of lines 189-193.
CreateCommentPost_NoPostIDCheck(s, a) ==
    LET s0 == [s EXCEPT !.promise = [st |-> "pending", val |-> Undefined]]
    IN  IF TypeOf(a.msg.t) \notin {"string", "object"}
        THEN ValidationFailure(s0, a, ValidationMsgError)
        ELSE IF a.msg.t = "null"
        THEN [state |-> s0, ret |-> "throw"]
        ELSE [state |-> HandleUploadStart(
                            [s0 EXCEPT !.form = BuildForm(a), !.chain = "uploading"], a),
              ret |-> "promise"]

\* Lines 161-243, the synchronous run of createCommentPost(msg, postID,
\* replyCommentID, callback): the state it leaves and how it returns.
CreateCommentPost(s, a) ==
    LET s0 == [s EXCEPT !.promise = [st |-> "pending", val |-> Undefined]]
    IN  IF TypeOf(a.msg.t) \notin {"string", "object"}
        THEN ValidationFailure(s0, a, ValidationMsgError)
        ELSE IF TypeOf(a.postID.kind) # "string"
        THEN ValidationFailure(s0, a, ValidationPostError)
        ELSE IF a.msg.t = "null"
        THEN [state |-> s0, ret |-> "throw"]
        ELSE [state |-> HandleUploadStart(
                            [s0 EXCEPT !.form = BuildForm(a), !.chain = "uploading"], a),
              ret |-> "promise"]

\* The caller calls createCommentPost with arguments a.
CallWith(a) ==
    /\ LET r == CreateCommentPost(State, a)
       IN  /\ Install(r.state)
           /\ ret' = r.ret
           /\ cbAtReturn' = Len(r.state.cbCalls)
    /\ args' = a
    /\ UNCHANGED <<twoVars, serverVars>>

Call ==
    /\ args = NoArgs
    /\ \E a \in Args : CallWith(a)

\* handleUpload settled during the call itself (no attachments, or an item
\* that is not a stream): its reaction is queued as a microtask.
MicrotaskPending ==
    chain = "uploading" /\ hu.st \in {"fulfilled", "rejected"}

\* The microtasks queued by the call run when the caller's code has returned.
Drain ==
    /\ MicrotaskPending
    /\ Install(IF hu.st = "fulfilled"
               THEN ThenMerge(State, args)
               ELSE CatchHandler(State, args, hu.val))
    /\ UNCHANGED <<args, ret, cbAtReturn, twoVars, serverVars>>

\* The response to upload i arrives with outcome o (lines 40-46).
Settled(s, i, o) ==
    [s EXCEPT !.upl[i].st = "settled", !.upl[i].out = o, !.arrived = Append(@, i)]

\* The reactions to that settlement: Promise.all (line 49) rejects with the
\* first rejection and fulfils when every upload has fulfilled, and then lines
\* 50-52 and the chain of lines 226-240 run; a settlement after handleUpload
\* has settled is discarded.
PromiseAll(s1, a, i, o) ==
    IF s1.hu.st # "pending" THEN s1
    ELSE IF UploadRejects(i, o)
    THEN CatchHandler([s1 EXCEPT !.hu = [st |-> "rejected", val |-> UploadValue(i, o)]],
                      a, UploadValue(i, o))
    ELSE IF \A j \in DOMAIN s1.upl : s1.upl[j].out = "ok"
    THEN ThenMerge([s1 EXCEPT !.hu = [st |-> "fulfilled", val |-> Undefined],
                              !.form = PushResults(s1.form, s1.upl)], a)
    ELSE s1

\* AfterUpload with a failed upload sent again, once.
AfterUpload_RetryOnce(s, a, i, o) ==
    IF UploadRejects(i, o) /\ s.upl[i].sent < 2
    THEN [s EXCEPT !.upl[i].sent = @ + 1]
    ELSE PromiseAll(Settled(s, i, o), a, i, o)

\* AfterUpload with each descriptor pushed when its response arrives.
AfterUpload_PushOnArrival(s, a, i, o) ==
    LET s1 == Settled(s, i, o)
    IN  IF s.hu.st # "pending" THEN s1
        ELSE IF UploadRejects(i, o)
        THEN PromiseAll(s1, a, i, o)
        ELSE LET s2 == [s1 EXCEPT !.form.attachments = Append(@, UploadValue(i, o))]
             IN  IF \A j \in DOMAIN s2.upl : s2.upl[j].out = "ok"
                 THEN ThenMerge([s2 EXCEPT !.hu = [st |-> "fulfilled", val |-> Undefined]], a)
                 ELSE s2

\* Lines 33-52 and 226-240 for one upload response.
AfterUpload(s, a, i, o) ==
    PromiseAll(Settled(s, i, o), a, i, o)

\* The response to the upload of attachment i arrives.
UploadResponse ==
    /\ ~MicrotaskPending
    /\ \E i \in DOMAIN upl :
          /\ upl[i].st = "inflight"
          /\ \E o \in UploadOutcomes : Install(AfterUpload(State, args, i, o))
    /\ UNCHANGED <<args, ret, cbAtReturn, twoVars, serverVars>>

\* The response to the mutation request arrives.
MutationResponse ==
    /\ mut.st = "inflight"
    /\ \E res \in MutationResponses :
          Install(CreateContentEnd([State EXCEPT !.mut.st = "settled", !.mut.res = res],
                                   args, res))
    /\ UNCHANGED <<args, ret, cbAtReturn, twoVars, serverVars>>

Next ==
    \/ Call
    \/ Drain
    \/ UploadResponse
    \/ MutationResponse

Spec == Init /\ [][Next]_vars

\* The same call with its mentions drawn from MentionItems and no attachments.
CallMentions ==
    /\ args = NoArgs
    /\ \E a \in MentionArgs : CallWith(a)

NextMentions ==
    \/ CallMentions
    \/ Drain
    \/ MutationResponse

SpecMentions == Init /\ [][NextMentions]_vars

-----------------------------------------------------------------------------
(* Two calls in flight together *)

\* The two messages a caller sends: one without attachments, one with two.
TwoMsgs ==
    { [t |-> "object", body |-> JSString(<<"a", "b">>), attachments |-> <<>>,
       mentions |-> << Mention(JSString(<<"b">>), "42", Undefined) >>,
       url |-> JSString("http://u"), sticker |-> JSNumber("7")],
      [t |-> "object", body |-> JSString(<<"b">>), attachments |-> <<"stream", "stream">>,
       mentions |-> <<>>,
       url |-> JSString("http://v"), sticker |-> Undefined] }

TwoArgs ==
    { [kind |-> "args", msg |-> m, postID |-> JSString("p1"),
       caller |-> [reply |-> "none", cb |-> "none", cbThrows |-> FALSE]] :
        m \in TwoMsgs }

\* Line 206: Math.round(Math.random() * 19) is an integer of 0..19; the two
\* ends of the range stand for it.
RandomIds == {0, 19}

\* utils.getGUID(): the g-th identifier the generator hands out; no two are equal.
GetGUID(g) == "guid" \o ToString(g)

\* FormTokens with the identifiers generated once, before any call.
FormTokens_Hoisted(r, g) ==
    [client_mutation_id |-> ToString(r),
     idempotence_token |-> "client:" \o GetGUID(0),
     session_id |-> GetGUID(1)]

\* Lines 206, 218 and 219: the fields of the form that do not depend on the
\* arguments; r is the random draw, g the number of identifiers handed out.
FormTokens(r, g) ==
    [client_mutation_id |-> ToString(r),
     idempotence_token |-> "client:" \o GetGUID(g),
     session_id |-> GetGUID(g + 1)]

\* StoreCall with one form object that every call writes to.
StoreCall_SharedForm(cs, c, s) ==
    [d \in DOMAIN cs |->
        IF d = c THEN [cs[d] EXCEPT !.s = s]
        ELSE IF cs[d].s.form = NoForm THEN cs[d]
        ELSE [cs[d] EXCEPT !.s.form = s.form]]

\* Line 201: `var form` is local to the call, as are the promises and the
\* closures of lines 162-180 and 226-240: a step of call c changes the state
\* of call c only.
StoreCall(cs, c, s) ==
    [cs EXCEPT ![c].s = s]

PendingIn(s) ==
    s.chain = "uploading" /\ s.hu.st \in {"fulfilled", "rejected"}

\* The caller makes call c (the second after the first).
TwoCall(c) ==
    /\ calls[c].args = NoArgs
    /\ c = 1 \/ calls[1].args # NoArgs
    /\ \E a \in TwoArgs, r \in RandomIds :
          LET res == CreateCommentPost(InitialState, a)
              built == res.state.form # NoForm
          IN  /\ calls' = StoreCall([calls EXCEPT ![c].args = a, ![c].ret = res.ret,
                                                  ![c].tok = IF built THEN FormTokens(r, guid)
                                                             ELSE NoTokens],
                                    c, res.state)
              /\ guid' = IF built THEN guid + 2 ELSE guid
    /\ UNCHANGED <<oneVars, serverVars>>

TwoDrain(c) ==
    /\ PendingIn(calls[c].s)
    /\ calls' = StoreCall(calls, c,
                     IF calls[c].s.hu.st = "fulfilled"
                     THEN ThenMerge(calls[c].s, calls[c].args)
                     ELSE CatchHandler(calls[c].s, calls[c].args, calls[c].s.hu.val))
    /\ UNCHANGED <<guid, oneVars, serverVars>>

TwoUploadResponse(c) ==
    /\ \A d \in DOMAIN calls : ~PendingIn(calls[d].s)
    /\ \E i \in DOMAIN calls[c].s.upl :
          /\ calls[c].s.upl[i].st = "inflight"
          /\ \E o \in UploadOutcomes :
                calls' = StoreCall(calls, c, AfterUpload(calls[c].s, calls[c].args, i, o))
    /\ UNCHANGED <<guid, oneVars, serverVars>>

TwoMutationResponse(c) ==
    /\ \A d \in DOMAIN calls : ~PendingIn(calls[d].s)
    /\ calls[c].s.mut.st = "inflight"
    /\ \E res \in MutationResponses :
          calls' = StoreCall(calls, c,
                       CreateContentEnd([calls[c].s EXCEPT !.mut.st = "settled",
                                                           !.mut.res = res],
                                        calls[c].args, res))
    /\ UNCHANGED <<guid, oneVars, serverVars>>

NextTwo ==
    \E c \in 1..2 :
        \/ TwoCall(c)
        \/ TwoDrain(c)
        \/ TwoUploadResponse(c)
        \/ TwoMutationResponse(c)

SpecTwo == Init /\ [][NextTwo]_vars

-----------------------------------------------------------------------------
(* The control server (src/unnamed/part_000) *)

\* A child process is "live" from its spawn, "termSent" once SIGTERM was sent
\* to it, "exited" when it has ended and its 'close' event is still to be
\* delivered, "closed" afterwards. Its pid is its index in procs.

\* botProcess.kill('SIGTERM'): no effect on a process that has ended.
Kill(ps, p) ==
    IF ps[p] = "live" THEN [ps EXCEPT ![p] = "termSent"] ELSE ps

\* Lines 23-25: GET /status.
Status == [status |-> botStatus, pid |-> botProcess]

\* Lines 27-81: POST /activate (the two files it writes are not modelled).
Activate ==
    /\ Len(procs) < MaxSpawns
    /\ procs' = Append(IF botProcess # 0 THEN Kill(procs, botProcess) ELSE procs, "live")
    /\ botProcess' = Len(procs) + 1
    /\ botStatus' = "running"
    /\ UNCHANGED <<oneVars, twoVars>>

\* Lines 83-93: POST /stop.
Stop ==
    /\ IF botProcess = 0
       THEN UNCHANGED serverVars
       ELSE /\ procs' = Kill(procs, botProcess)
            /\ botProcess' = 0
            /\ botStatus' = "stopped"
    /\ UNCHANGED <<oneVars, twoVars>>

\* Child process p ends, of its own or on the SIGTERM it was sent.
ProcExit(p) ==
    /\ procs[p] \in {"live", "termSent"}
    /\ procs' = [procs EXCEPT ![p] = "exited"]
    /\ UNCHANGED <<botProcess, botStatus, oneVars, twoVars>>

\* Lines 68-72: the 'close' event of child process p is delivered.
ProcClose(p) ==
    /\ procs[p] = "exited"
    /\ procs' = [procs EXCEPT ![p] = "closed"]
    /\ botProcess' = 0
    /\ botStatus' = "stopped"
    /\ UNCHANGED <<oneVars, twoVars>>

NextServer ==
    \/ Activate
    \/ Stop
    \/ \E p \in DOMAIN procs : ProcExit(p)
    \/ \E p \in DOMAIN procs : ProcClose(p)

SpecServer == Init /\ [][NextServer]_vars

-----------------------------------------------------------------------------
(* Properties *)

Called == args # NoArgs

\* Nothing of the call is left to run: no microtask, no request in flight.
Quiescent ==
    /\ Called
    /\ ~MicrotaskPending
    /\ \A i \in DOMAIN upl : upl[i].st # "inflight"
    /\ mut.st # "inflight"

\* Lines 183 and 189: the arguments fail validation.
Invalid(a) ==
    TypeOf(a.msg.t) \notin {"string", "object"} \/ TypeOf(a.postID.kind) # "string"

ValidationErrorOf(a) ==
    IF TypeOf(a.msg.t) \notin {"string", "object"}
    THEN ValidationMsgError ELSE ValidationPostError

UploadsSent == {i \in DOMAIN upl : upl[i].sent > 0}

Succeeded == cbCalls # <<>> /\ cbCalls[1].err = Null

\* C1: with a caller-supplied callback, and in every outcome the claim lists
\* (validation failure, unreadable attachment, failed upload, failed
\* submission, success), the callback is never invoked twice and has been
\* invoked exactly once when nothing of the call is left to run.
C1_CallbackExactlyOnce ==
    (Called /\ UserCallback(args) /\ (Invalid(args) \/ args.msg.t # "null"))
        => /\ Len(cbCalls) <= 1
           /\ Quiescent => Len(cbCalls) = 1

\* C2: with a caller-supplied callback, once the callback has been invoked the
\* returned promise is settled with the same outcome: rejected with the
\* callback's error, or resolved with the callback's result.
C2_PromiseInLockstep ==
    (Called /\ UserCallback(args) /\ cbCalls # <<>>)
        => IF cbCalls[1].err # Null
           THEN promise = [st |-> "rejected", val |-> cbCalls[1].err]
           ELSE promise = [st |-> "resolved", val |-> cbCalls[1].data]

\* C3: without a callback, a call whose msg or postID fails validation returns
\* the promise, and that promise is rejected with the validation error.
C3_ReturnsAwaitable ==
    (Called /\ ~UserCallback(args) /\ Invalid(args))
        => /\ ret = "promise"
           /\ promise = [st |-> "rejected", val |-> ValidationErrorOf(args)]

C5_NoUploadBeforeCheck ==
    (Called /\ \E k \in DOMAIN args.msg.attachments :
                   ~IsReadableStream(args.msg.attachments[k]))
        => UploadsSent = {}

\* The uploads that have settled with a rejection, in order of arrival.
RejectedArrivals == SelectSeq(arrived, LAMBDA i : UploadRejects(i, upl[i].out))

\* C6: the mutation request is issued only when every upload of the call has
\* succeeded; when an upload comes back with a failed response (an error, no
\* payload or no media id) and is the first upload to fail, no mutation
\* request is issued and the call fails with that response object itself.
C6_UploadFailureAborts ==
    /\ mut.sent > 0 =>
           \A i \in DOMAIN args.msg.attachments :
               i \in DOMAIN upl /\ upl[i].st = "settled" /\ upl[i].out = "ok"
    /\ (RejectedArrivals # <<>> /\ upl[RejectedArrivals[1]].out # "neterr")
           => /\ mut.sent = 0
              /\ cbCalls # <<>>
              /\ cbCalls[1].err = UploadRes(RejectedArrivals[1], upl[RejectedArrivals[1]].out)

\* The attachment list the claim describes: the media descriptors in the
\* order of the list, then the URL, then the sticker.
ExpectedAttachments(msg) ==
    [i \in 1..Len(msg.attachments) |-> Media(Fbid(i))]
    \o (IF msg.url.kind = "string" THEN << Link(msg.url.v) >> ELSE <<>>)
    \o (IF msg.sticker # Undefined THEN << Media(msg.sticker.v) >> ELSE <<>>)

\* C7: whatever the order in which the upload responses arrive, the form
\* that is submitted lists the media descriptors in the order of the
\* attachments, each with the id returned for its attachment, then the URL
\* descriptor if msg.url is a string, then the sticker descriptor.
C7_AttachmentOrder ==
    mut.sent > 0 => mut.body.attachments = ExpectedAttachments(args.msg)

C7_Witness ==
    /\ mut.sent > 0
    /\ arrived = <<2, 1>>
    /\ args.msg.url.kind = "string"
    /\ args.msg.sticker # Undefined

HasErrors == mut.st = "settled" /\ mut.res.kind = "mutationRes" /\ mut.res.errors # NoErrors

\* C8 as stated: a mutation response with a top-level error collection makes
\* the call fail with that collection as the error value, the callback
\* invoked exactly once.
C8_FailsWithCollection ==
    HasErrors => cbCalls = << [err |-> mut.res.errors, data |-> Undefined] >>

\* C8, amended: a mutation response with a top-level error collection makes
\* the call fail with the response object itself as the error value, the
\* callback invoked exactly once.
C8_FailsWithResponse ==
    HasErrors => cbCalls = << [err |-> mut.res, data |-> Undefined] >>

C8_Witness ==
    /\ HasErrors
    /\ mut.res.errors = ErrorCollection(1)
    /\ CallbackThrows(args)
    /\ Len(cbCalls) = 1

\* C9: for a mutation response without an error collection the call succeeds
\* only if the comment id, the feedback url and the total comment count are
\* all present, so a successful result has id, url and count defined.
C9_AllFieldsRequired ==
    (mut.st = "settled" /\ Succeeded)
        => /\ {"id", "url", "total_comment_count"} \subseteq mut.res.has
           /\ cbCalls[1].data.id # Undefined
           /\ cbCalls[1].data.url # Undefined
           /\ cbCalls[1].data.count # Undefined

Merged == Called /\ hu.st = "fulfilled" /\ ~MicrotaskPending

\* C11: for a message object, with its body present or absent, no mention
\* fails the call: once the uploads are done the mergers run to the end and
\* the mutation request is issued, and a mention whose tag does not occur in
\* the body has added no range to the form.
C11_MentionNeverFails ==
    (Merged /\ args.msg.t = "object")
        => /\ mut.sent = 1
           /\ \A i \in DOMAIN args.msg.mentions :
                  (args.msg.mentions[i].tag = JSString(<<"c">>))
                      => \A k \in DOMAIN form.ranges : form.ranges[k].length # 1
                             \/ form.ranges[k].offset < 0

\* C17: the call never throws to its caller (a caller whose own callback throws
\* apart): for every msg, null included, and every postID, an unusable input
\* has been reported through the completion path when the call returns.
C17_NeverThrows ==
    (Called /\ ~CallbackThrows(args))
        => /\ ret # "throw"
           /\ (Invalid(args) \/ args.msg.t = "null") => cbAtReturn = 1

\* C18: when the caller's callback throws while it is invoked with
\* (null, result) after a successful submission, it is not invoked again.
C18_NoSecondInvocation ==
    (Called /\ CallbackThrows(args) /\ Succeeded) => Len(cbCalls) = 1

-----------------------------------------------------------------------------
(* Mentions and the order of the mergers *)

\* The tag occurs in the body at position k, counted from 0.
Occurs(body, tag, k) ==
    /\ k >= 0
    /\ k + Len(tag) <= Len(body)
    /\ SubSeq(body, k + 1, k + Len(tag)) = tag

\* A mention the mentions merger looks up: its tag is a string and it has an id.
Usable(item) == item.tag.kind = "string" /\ item.id # ""

\* The fromIndex a mention states, 0 when it states none.
StatedFrom(item) ==
    IF item.fromIndex = Undefined THEN 0 ELSE item.fromIndex.n

\* The positions at or after `from` where the mention's tag occurs in the body.
OccurrencesFrom(msg, item, from) ==
    {k \in 0..Len(msg.body.v) : k >= from /\ Occurs(msg.body.v, item.tag.v, k)}

\* The ranges of the usable mentions, in input order, each at the first
\* occurrence of its tag at or after from(item).
RangesFrom(msg, from(_)) ==
    IF msg.body.kind # "string" THEN <<>>
    ELSE LET idx == SelectSeq([i \in 1..Len(msg.mentions) |-> i],
                        LAMBDA i : /\ Usable(msg.mentions[i])
                                   /\ OccurrencesFrom(msg, msg.mentions[i],
                                                      from(msg.mentions[i])) # {})
         IN  [k \in 1..Len(idx) |->
                 LET item == msg.mentions[idx[k]]
                 IN  [entity |-> item.id, length |-> Len(item.tag.v),
                      offset |-> Min(OccurrencesFrom(msg, item, from(item)))]]

Submitted == Called /\ mut.sent > 0

\* C12 as stated: the submitted ranges are, in input order, one per mention
\* whose tag occurs at or after its fromIndex (0 when absent), with the
\* mention's id, the tag's length and the offset of the first such occurrence;
\* a fromIndex beyond the end of the body included.
C12_RangesAsStated ==
    Submitted => mut.body.ranges = RangesFrom(args.msg, StatedFrom)

\* The mentions of the message that satisfy P.
MentionsWhere(msg, P(_)) == {i \in DOMAIN msg.mentions : P(msg.mentions[i])}

\* The mention's tag occurs in the body at or after its fromIndex.
Found(msg, item) ==
    /\ Usable(item)
    /\ msg.body.kind = "string"
    /\ OccurrencesFrom(msg, item, StatedFrom(item)) # {}

\* C16 as stated: a mention with a missing or empty tag, or with no id, adds
\* no range: the submitted ranges are as many as the found mentions with a
\* non-empty tag, and none of them has length 0.
C16_EmptyTagSkipped ==
    Submitted =>
        /\ Len(mut.body.ranges) =
               Cardinality(MentionsWhere(args.msg,
                   LAMBDA item : Found(args.msg, item) /\ item.tag.v # <<>>))
        /\ \A k \in DOMAIN mut.body.ranges : mut.body.ranges[k].length > 0

\* The three mergers by name, and the six orders they can be applied in.
Mergers == {"url", "mentions", "sticker"}

Orders == {o \in [1..3 -> Mergers] : {o[k] : k \in 1..3} = Mergers}

ApplyMerger(name, msg, r) ==
    IF r.threw THEN r
    ELSE CASE name = "url" -> [form |-> handleURL(msg, r.form), threw |-> FALSE]
           [] name = "sticker" -> [form |-> handleSticker(msg, r.form), threw |-> FALSE]
           [] name = "mentions" -> handleMentions(msg, r.form)

ApplyOrder(o, msg, frm) ==
    ApplyMerger(o[3], msg, ApplyMerger(o[2], msg, ApplyMerger(o[1], msg,
        [form |-> frm, threw |-> FALSE])))

\* The form as handleUpload leaves it to the mergers.
FormBeforeMerge ==
    IF upl = <<>> THEN BuildForm(args) ELSE PushResults(BuildForm(args), upl)

\* Applying the mergers in order o gives what the call has: the same failure,
\* or the same attachment and range lists.
SameAsOrder(o) ==
    LET r == ApplyOrder(o, args.msg, FormBeforeMerge)
    IN  /\ r.threw = (mut.sent = 0)
        /\ ~r.threw => /\ r.form.attachments = form.attachments
                       /\ r.form.ranges = form.ranges

UrlBeforeSticker(o) ==
    \E j, k \in 1..3 : j < k /\ o[j] = "url" /\ o[k] = "sticker"

\* C15 as stated: whichever of the six orders the three mergers are applied
\* in, the attachment and range lists come out as the call has them.
C15_AnyOrder ==
    Merged => \A o \in Orders : SameAsOrder(o)

\* C15: the three orders that apply the URL merger before the sticker merger
\* give the attachment and range lists the call has; with both a url and a
\* sticker, the orders that apply the sticker merger first give another
\* attachment list.
C15_UrlBeforeSticker ==
    Merged =>
        /\ \A o \in Orders : UrlBeforeSticker(o) => SameAsOrder(o)
        /\ (mut.sent = 1 /\ args.msg.url.kind = "string" /\ args.msg.sticker # Undefined)
               => \A o \in Orders : ~UrlBeforeSticker(o) => ~SameAsOrder(o)

\* The mergers ran on a message with a url, a sticker and a found mention.
C15_Witness ==
    /\ Merged
    /\ mut.sent = 1
    /\ args.msg.url.kind = "string"
    /\ args.msg.sticker # Undefined
    /\ Len(form.attachments) = 2
    /\ Len(form.ranges) > 0

-----------------------------------------------------------------------------
(* Two calls *)

\* What call c sent as the mutation request body.
SentBody(c) == [form |-> calls[c].s.mut.body, tok |-> calls[c].tok]

\* Both calls were made with the same arguments and both sent their mutation
\* request (every upload of both came back with its media id).
IdenticalCallsSubmitted ==
    /\ calls[1].args = calls[2].args
    /\ \A c \in 1..2 : calls[c].s.mut.sent > 0

TokensDiffer ==
    /\ SentBody(1).tok.idempotence_token # SentBody(2).tok.idempotence_token
    /\ SentBody(1).tok.session_id # SentBody(2).tok.session_id

\* C13 as stated: two identical calls send bodies equal in every field but
\* the idempotence token and the session id, client_mutation_id included, and
\* those two tokens differ.
C13_EqualButTwoTokens ==
    IdenticalCallsSubmitted =>
        /\ SentBody(1).form = SentBody(2).form
        /\ SentBody(1).tok.client_mutation_id = SentBody(2).tok.client_mutation_id
        /\ TokensDiffer

\* C13: two identical calls send bodies equal in every field but
\* client_mutation_id, the idempotence token and the session id, and the
\* idempotence token and the session id differ between the two calls.
C13_EqualButThreeFields ==
    IdenticalCallsSubmitted =>
        /\ SentBody(1).form = SentBody(2).form
        /\ TokensDiffer

\* Two identical calls with attachments, both submitted, whose random
\* client_mutation_id came out different.
C13_Witness ==
    /\ IdenticalCallsSubmitted
    /\ Len(SentBody(1).form.attachments) = 3
    /\ SentBody(1).tok.client_mutation_id # SentBody(2).tok.client_mutation_id

\* C14: whatever the interleaving of the two calls' steps, the form a call
\* submits holds the descriptors, the ranges and the text of its own message
\* and nothing of the other call's.
C14_OwnFormOnly ==
    \A c \in 1..2 :
        calls[c].s.mut.sent > 0 =>
            /\ SentBody(c).form.attachments = ExpectedAttachments(calls[c].args.msg)
            /\ SentBody(c).form.ranges = RangesFrom(calls[c].args.msg, StatedFrom)
            /\ SentBody(c).form.text = calls[c].args.msg.body.v

\* The second call merged and submitted its form between two upload
\* completions of the first, which has another message.
C14_Witness ==
    /\ calls[2].s.mut.sent = 1
    /\ calls[1].s.hu.st = "pending"
    /\ Len(calls[1].s.arrived) = 1
    /\ calls[1].args # calls[2].args

-----------------------------------------------------------------------------
(* The control server *)

\* The bot processes that were spawned, were not sent SIGTERM and have not ended.
Live == {p \in DOMAIN procs : procs[p] = "live"}

\* C19: a live bot process is the one tracked in botProcess, with botStatus
\* 'running', so that /status reports it and /stop can terminate it.
C19_LiveIsTracked ==
    \A p \in Live : botProcess = p /\ Status = [status |-> "running", pid |-> p]

\* C20: at most one bot process is live at any moment.
C20_AtMostOneLive ==
    Cardinality(Live) <= 1

====
